---- MODULE Spec2Model ----
(***************************************************************************)
(* A model of flashcluster: the approximate-farthest-neighbour sketch, the *)
(* candidate-graph builder, Kruskal's MST extraction, the single-linkage   *)
(* reconstruction and the ultrametric facade.                              *)
(*                                                                         *)
(* Conventions.  Point ids are 0-based as in the source; an array indexed  *)
(* by id is a function over 0..n-1, a Vec that is only pushed to and       *)
(* iterated is a sequence.  An Edge(u, v, w) is the tuple <<u, v, w>>.     *)
(* f32 values are modelled by exact numbers:                               *)
(*   - an edge weight handed to Kruskal or to single_linkage is an         *)
(*     integer (only the order of weights and their sums are used);        *)
(*   - a Euclidean distance sqrt(k) between points with integer            *)
(*     coordinates is represented by its radicand k, so that comparing two *)
(*     distances is comparing radicands and doubling one is multiplying    *)
(*     the radicand by 4;                                                  *)
(*   - a radius of the ladder is the rational <<num, den>>, in units of    *)
(*     min_dist.                                                           *)
(* A panic (failed assert!, unwrap of None, index out of bounds) is the    *)
(* value Panic or the control state "panic".                               *)
(***************************************************************************)
EXTENDS Integers, Sequences, FiniteSets, TLC

VARIABLES
    pc,            \* control state of the operation under way
    cut_weights,   \* Ultrametric::single_linkage: its argument
    id_to_pos,     \* Ultrametric.id_to_pos
    rmq,           \* Ultrametric.rmq
    n,             \* number of points / vertices
    edges,         \* the candidate edge list (gamma_kt's `edges`, Kruskal's input)
    res,           \* SpanningTree.edges returned by exact_mst_krusal
    points,        \* the PointSet
    gamma,         \* KtParams.gamma / MstParams.gamma
    radius,        \* gamma_kt: the current rung of the ladder
    max_dist,      \* estimate_diameter's return value
    lsh,           \* the buckets projection_lsh returned to the last local_bfs
    pass_edges,    \* the edges the last local_bfs pushed
    projections,   \* ApproxFarthestNeighbor.projections
    m,             \* ApproxFarthestNeighbor.m / AfnCluster.m
    buckets,       \* AfnCluster.buckets, one entry per cluster of create_clusters
    merged,        \* per cluster, the point ids merged into it so far
    far            \* outcome of the last AfnCluster::get_farthest

umVars  == <<cut_weights, id_to_pos, rmq>>
mstVars == <<n, edges, res>>
ktVars  == <<points, gamma, radius, max_dist, lsh, pass_edges>>
afnVars == <<projections, m, buckets, merged, far>>
vars    == <<pc, umVars, mstVars, ktVars, afnVars>>

Null  == "null"
Panic == 0 - 1

(***************************************************************************)
(* Bounds of the model.                                                    *)
(***************************************************************************)
MaxN == 4        \* single linkage: at most MaxN points
MaxW == 2        \* single linkage: weights 1..MaxW
MstMaxN == 3     \* Kruskal on a given edge list: at most MstMaxN vertices
MstMaxW == 2     \* Kruskal on a given edge list: weights 1..MstMaxW
KtMaxCoord == 2  \* compute_mst: coordinates 0..KtMaxCoord, in units of min_dist
DiamMaxN == 4    \* estimate_diameter: at most DiamMaxN points
DiamMaxCoord == 2 \* estimate_diameter: coordinates 0..DiamMaxCoord
BfsMaxN == 3     \* local_bfs: at most BfsMaxN points
BfsMaxCoord == 2 \* local_bfs: coordinates 0..BfsMaxCoord
BfsMaxRadius == 2 \* local_bfs: radius 1..BfsMaxRadius
AfnMaxN == 3     \* AFN: at most AfnMaxN points
AfnMaxL == 2     \* AFN: at most AfnMaxL projection axes
AfnMaxM == 2     \* AFN: m in 1..AfnMaxM
AfnMaxCoord == 1 \* AFN: coordinates 0..AfnMaxCoord

(***************************************************************************)
(* Generic helpers.                                                        *)
(***************************************************************************)
Max(a, b) == IF a >= b THEN a ELSE b

SetMax(S) == CHOOSE x \in S : \A y \in S : y <= x

SetMin(S) == CHOOSE x \in S : \A y \in S : x <= y

Range(s) == { s[i] : i \in DOMAIN s }

Ids(k) == 0 .. (k - 1)

\* The edges over k vertices with weights 1..w, endpoints distinct (u < v).
EdgeSet(k, w) == { e \in (Ids(k) \X Ids(k) \X (1..w)) : e[1] < e[2] }

\* A fixed total order on edges, used only to list each input once: the
\* consumers sort their input, and the sort's order among equal weights is
\* modelled as unspecified, so the order of the input does not matter.
EdgeLeq(e, f) ==
    \/ e[1] < f[1]
    \/ e[1] = f[1] /\ e[2] < f[2]
    \/ e[1] = f[1] /\ e[2] = f[2] /\ e[3] <= f[3]

RECURSIVE ListsOver(_, _)
\* The sequences of length len over E that are ascending in EdgeLeq
\* (duplicates allowed).
ListsOver(E, len) ==
    IF len = 0 THEN { <<>> }
    ELSE UNION { { Append(s, e) : e \in { f \in E : len = 1 \/ EdgeLeq(s[len - 1], f) } } :
                 s \in ListsOver(E, len - 1) }

Weights(E) == { e[3] : e \in E }

RECURSIVE ReachFrom(_, _)
\* The vertices reachable from the set S along the (undirected) edges E.
ReachFrom(S, E) ==
    LET T == S \cup { e[2] : e \in { f \in E : f[1] \in S } }
               \cup { e[1] : e \in { f \in E : f[2] \in S } }
    IN IF T = S THEN S ELSE ReachFrom(T, E)

Connected(i, j, E) == j \in ReachFrom({i}, E)

\* Number of connected components of the graph (Ids(k), E).
RECURSIVE CountComponents(_, _)
CountComponents(V, E) ==
    IF V = {} THEN 0
    ELSE LET v == CHOOSE x \in V : TRUE
         IN 1 + CountComponents(V \ ReachFrom({v}, E), E)

IsSpanningTree(s, k) ==
    /\ Len(s) = k - 1
    /\ ReachFrom({0}, Range(s)) = Ids(k)

(***************************************************************************)
(* sort_unstable_by_key(|e| OrderedFloat(e.2)): the outcomes are the       *)
(* permutations of the list that are ascending in weight; the order among  *)
(* equal weights is unspecified.                                           *)
(***************************************************************************)
IsSortedByWeight(s) == \A i \in 1..(Len(s) - 1) : s[i][3] <= s[i + 1][3]

sort_forgotten(s) == { s }

sort_unstable_by_key(s) ==
    { t \in { [i \in 1..Len(s) |-> s[p[i]]] : p \in Permutations(1..Len(s)) } :
        IsSortedByWeight(t) }

(***************************************************************************)
(* UnionFindWithData (union_find, not among the source files): the         *)
(* partition of [0,n); every root owns the linearization of its cluster    *)
(* and the size-1 gap weights between consecutive positions.  merge        *)
(* concatenates the two linearizations and puts the weight at the joint;   *)
(* it returns None when the endpoints are already in one cluster.          *)
(***************************************************************************)
UnionFindWithData_new(k) ==
    [ root |-> [i \in Ids(k) |-> i],
      lin  |-> [i \in Ids(k) |-> <<i>>],
      data |-> [i \in Ids(k) |-> <<>>] ]

UnionFindWithData_merge(uf, u, v, w) ==
    LET ru == uf.root[u]
        rv == uf.root[v]
    IN IF ru = rv THEN [some |-> FALSE, uf |-> uf]
       ELSE [ some |-> TRUE,
              uf |-> [ root |-> [i \in DOMAIN uf.root |->
                                    IF uf.root[i] = rv THEN ru ELSE uf.root[i]],
                       lin  |-> [uf.lin EXCEPT ![ru] = uf.lin[ru] \o uf.lin[rv],
                                               ![rv] = <<>>],
                       data |-> [uf.data EXCEPT ![ru] = uf.data[ru] \o <<w>> \o uf.data[rv],
                                                ![rv] = <<>>] ] ]

iter_cluster(uf, x) == uf.lin[uf.root[x]]

iter_data(uf, x) == uf.data[uf.root[x]]

(***************************************************************************)
(* Rmq (ultrametric/rmq, not among the source files): a static range       *)
(* maximum over the weights.  get_max(lo..hi) is None on an empty range    *)
(* or one that leaves the array, else the maximum of weights[lo..hi).      *)
(***************************************************************************)
Rmq_new(weights) == weights

Rmq_get_max(r, lo, hi) ==
    IF lo >= hi \/ hi > Len(r) THEN Panic
    ELSE SetMax({ r[p + 1] : p \in lo..(hi - 1) })

(***************************************************************************)
(* Ultrametric::single_linkage, after the sort: `sorted` is the outcome of *)
(* sort_unstable_by_key.  The loop asserts that every merge succeeds.      *)
(***************************************************************************)
RECURSIVE MergeAllSkip(_, _, _)
MergeAllSkip(uf, sorted, i) ==
    IF i > Len(sorted) THEN [ok |-> TRUE, uf |-> uf]
    ELSE MergeAllSkip(UnionFindWithData_merge(uf, sorted[i][1], sorted[i][2], sorted[i][3]).uf,
                      sorted, i + 1)

RECURSIVE MergeAll(_, _, _)
\* for Edge(u, v, w) in cut_weights { assert!(uf.merge(u, v, w).is_some()) }
MergeAll(uf, sorted, i) ==
    IF i > Len(sorted) THEN [ok |-> TRUE, uf |-> uf]
    ELSE LET r == UnionFindWithData_merge(uf, sorted[i][1], sorted[i][2], sorted[i][3])
         IN IF r.some THEN MergeAll(r.uf, sorted, i + 1)
            ELSE [ok |-> FALSE, uf |-> uf]

\* The outcomes of single_linkage: a panic, or the pair (id_to_pos, rmq).
single_linkage_of(sorted) ==
    LET k   == Len(sorted) + 1
        r   == MergeAll(UnionFindWithData_new(k), sorted, 1)
        lin == iter_cluster(r.uf, 0)
    IN IF ~r.ok THEN [ok |-> FALSE]
       ELSE [ ok |-> TRUE,
              id_to_pos |-> [id \in Ids(k) |->
                  IF \E p \in 1..Len(lin) : lin[p] = id
                  THEN (CHOOSE p \in 1..Len(lin) : lin[p] = id) - 1
                  ELSE 0],
              rmq |-> Rmq_new(iter_data(r.uf, 0)) ]

single_linkage(cw) == { single_linkage_of(sorted) : sorted \in sort_unstable_by_key(cw) }

(***************************************************************************)
(* Ultrametric::dist.  rmq_queries counts the calls of get_max.            *)
(***************************************************************************)
dist_noswap(i, j) ==
    IF i = j THEN [ret |-> 0, rmq_queries |-> 0]
    ELSE [ret |-> Rmq_get_max(rmq, id_to_pos[i], id_to_pos[j]), rmq_queries |-> 1]

dist_firstgap(i, j) ==
    IF i = j THEN [ret |-> 0, rmq_queries |-> 0]
    ELSE LET lo == IF id_to_pos[i] > id_to_pos[j] THEN id_to_pos[j] ELSE id_to_pos[i]
         IN [ret |-> Rmq_get_max(rmq, lo, lo + 1), rmq_queries |-> 1]

Ultrametric_dist_call(i, j) ==
    IF i = j THEN [ret |-> 0, rmq_queries |-> 0]
    ELSE LET pos_i == id_to_pos[i]
             pos_j == id_to_pos[j]
             lo == IF pos_i > pos_j THEN pos_j ELSE pos_i
             hi == IF pos_i > pos_j THEN pos_i ELSE pos_j
         IN [ret |-> Rmq_get_max(rmq, lo, hi), rmq_queries |-> 1]

Ultrametric_dist(i, j) == Ultrametric_dist_call(i, j).ret

(***************************************************************************)
(* points.rs.  A row of the PointSet is a tuple of integer coordinates.    *)
(* dist2 is the fold of the source; dist is its square root, represented   *)
(* by the radicand (see the conventions above): dist(p, q) <= dist(r, s)   *)
(* in the source iff the radicands compare so here.                        *)
(***************************************************************************)
RECURSIVE dist2_fold(_, _, _)
dist2_fold(p1, p2, i) ==
    IF i > Len(p1) THEN 0
    ELSE (p1[i] - p2[i]) * (p1[i] - p2[i]) + dist2_fold(p1, p2, i + 1)

dist2(p1, p2) == dist2_fold(p1, p2, 1)

dist(p1, p2) == dist2(p1, p2)

\* 2.0 * x for a distance x given by its radicand.
Twice(x) == 4 * x

nrows(pts) == Cardinality(DOMAIN pts)

(***************************************************************************)
(* afn::estimate_diameter.  max_by_key returns the last of several maximal *)
(* elements.                                                               *)
(***************************************************************************)
estimate_diameter_one_pass(pts) ==
    SetMax({ dist(pts[0], pts[i]) : i \in DOMAIN pts })

estimate_diameter(pts) ==
    LET p0  == pts[0]
        far1 == SetMax({ dist(p0, pts[i]) : i \in DOMAIN pts })
        p1  == pts[SetMax({ i \in DOMAIN pts : dist(p0, pts[i]) = far1 })]
        apx == SetMax({ dist(p1, pts[i]) : i \in DOMAIN pts })
    IN Twice(apx)

(***************************************************************************)
(* lsh::projection_lsh and lsh::rho.  The projections and shifts are       *)
(* random: the model returns every bucketing the hash can produce for      *)
(* points on a line (rows of one coordinate).  Each of the k hash          *)
(* functions floor(x * g / (radius * w) + shift) is monotone in x, so a    *)
(* bucket holds the points of a run of consecutive coordinates, and points *)
(* of equal coordinates share a bucket.  A bucketing is given by the set   *)
(* of coordinates after which a hash value changes; a bucket lists its ids *)
(* in ascending order (push(i) in enumeration order), and the buckets come *)
(* in any order (into_values of a hash map).                               *)
(***************************************************************************)
RECURSIVE SeqOfSet(_)
\* The ascending sequence of a set of integers.
SeqOfSet(S) ==
    IF S = {} THEN <<>>
    ELSE LET x == SetMin(S) IN <<x>> \o SeqOfSet(S \ {x})

Orderings(S) ==
    IF S = {} THEN { <<>> }
    ELSE LET k == Cardinality(S)
         IN { f \in [1..k -> S] : \A i \in 1..k, j \in 1..k : i # j => f[i] # f[j] }

projection_lsh(pts, r, c) ==
    LET xs   == { pts[i][1] : i \in DOMAIN pts }
        key(i, cuts) == Cardinality({ x \in cuts : x < pts[i][1] })
        part(cuts) == { { j \in DOMAIN pts : key(j, cuts) = key(i, cuts) } : i \in DOMAIN pts }
    IN UNION { { [b \in DOMAIN o |-> SeqOfSet(o[b])] : o \in Orderings(part(cuts)) } :
               cuts \in SUBSET (xs \ {SetMax(xs)}) }

(***************************************************************************)
(* spanning_tree/kt.rs.  gamma is an integer >= 1; a radius is the         *)
(* rational <<num, den>>; d <= gamma * radius is compared on squares.      *)
(***************************************************************************)
WithinRadius(d, g, r) == d * r[2] * r[2] <= g * g * r[1] * r[1]

RECURSIVE retain(_, _, _, _, _, _)
\* b.retain(|&v| ...) for the source u: the ids kept in b, and the edges
\* pushed for the others.
retain(pts, u, b, g, r, i) ==
    IF i > Len(b) THEN [b |-> <<>>, edges |-> <<>>]
    ELSE LET rest == retain(pts, u, b, g, r, i + 1)
             d == dist(pts[u], pts[b[i]])
         IN IF WithinRadius(d, g, r)
            THEN [b |-> rest.b, edges |-> <<<<u, b[i], d>>>> \o rest.edges]
            ELSE [b |-> <<b[i]>> \o rest.b, edges |-> rest.edges]

RECURSIVE bfs_queue(_, _, _, _, _, _)
\* while let Some(u) = q.pop_front() { b.retain(...) }: nothing is pushed to
\* q inside the loop.
bfs_queue(pts, q, b, g, r, es) ==
    IF q = <<>> THEN [b |-> b, edges |-> es]
    ELSE LET kept == retain(pts, Head(q), b, g, r, 1)
         IN bfs_queue(pts, Tail(q), kept.b, g, r, es \o kept.edges)

RECURSIVE bfs_bucket(_, _, _, _, _)
\* while let Some(x) = b.pop() { q = [x]; ... }
bfs_bucket(pts, b, g, r, es) ==
    IF b = <<>> THEN es
    ELSE LET x    == b[Len(b)]
             done == bfs_queue(pts, <<x>>, SubSeq(b, 1, Len(b) - 1), g, r, es)
         IN bfs_bucket(pts, done.b, g, r, done.edges)

RECURSIVE local_bfs(_, _, _, _, _, _)
\* for mut b in buckets { ... }, from bucket i on.
local_bfs(pts, r, g, es, bs, i) ==
    IF i > Len(bs) THEN es
    ELSE local_bfs(pts, r, g, bfs_bucket(pts, bs[i], g, r, es), bs, i + 1)

\* lsh::rho: 0.6 / c, as the rational <<6, 10 c>>.
rho(c) == <<6, 10 * c>>

RECURSIVE Pow(_, _)
Pow(x, k) == IF k = 0 THEN 1 ELSE x * Pow(x, k - 1)

RECURSIVE powf_floor(_, _, _)
\* (n as f32).powf(rho) as usize, from the candidate k upwards: the largest
\* k with k <= n^(6 / (10 gamma)), i.e. k^(10 gamma) <= n^6.
powf_floor(k, g, cnt) ==
    IF Pow(k + 1, rho(g)[2]) <= Pow(cnt, rho(g)[1]) THEN powf_floor(k + 1, g, cnt) ELSE k

nb_iter(g, cnt) == Max(powf_floor(0, g, cnt), 1)

RECURSIVE iter_local_bfs(_, _, _, _, _)
\* for _ in 0..nb_iter { local_bfs(points, radius, gamma, edges) }: the
\* edge lists it can leave, `left` passes to go.
iter_local_bfs(pts, r, g, es, left) ==
    IF left = 0 THEN { es }
    ELSE UNION { iter_local_bfs(pts, r, g, local_bfs(pts, r, g, es, bs, 1), left - 1) :
                 bs \in projection_lsh(pts, r, g) }

\* log2 of the point counts the model uses (powers of two, so that
\* step = 1 + 5 / log2(n) is the exact rational <<log2(n) + 5, log2(n)>>;
\* a denominator 0 is +infinity, the value of 5. / 0.).
log2(cnt) == CASE cnt = 1 -> 0 [] cnt = 2 -> 1 [] cnt = 4 -> 2

step(cnt) == <<log2(cnt) + 5, log2(cnt)>>

MinDist == 1

\* radius <= step * max_dist.  For n = 1 the step is infinite and max_dist
\* is 0: the product is NaN and the comparison is false.
ladder_continues(r, cnt, md) ==
    IF step(cnt)[2] = 0 THEN md > 0
    ELSE r[1] * r[1] * step(cnt)[2] * step(cnt)[2]
           <= step(cnt)[1] * step(cnt)[1] * md * r[2] * r[2]

\* radius *= step
next_radius(r, cnt) == <<r[1] * step(cnt)[1], r[2] * step(cnt)[2]>>

(***************************************************************************)
(* UnionFind (union_find, not among the source files): the partition of    *)
(* [0,n); merge returns None when the two ids are already in one set.      *)
(***************************************************************************)
UnionFind_new(k) == [i \in Ids(k) |-> i]

UnionFind_merge(uf, u, v) ==
    IF uf[u] = uf[v] THEN [some |-> FALSE, uf |-> uf]
    ELSE [some |-> TRUE,
          uf |-> [i \in DOMAIN uf |-> IF uf[i] = uf[v] THEN uf[u] ELSE uf[i]]]

(***************************************************************************)
(* spanning_tree::exact_mst_krusal and MstParams::compute_mst.             *)
(***************************************************************************)
RECURSIVE filter_merge(_, _, _)
\* edges.into_iter().filter(|Edge(u, v, _)| uf.merge(*u, *v).is_some())
filter_merge(uf, sorted, i) ==
    IF i > Len(sorted) THEN <<>>
    ELSE LET r == UnionFind_merge(uf, sorted[i][1], sorted[i][2])
         IN IF r.some THEN <<sorted[i]>> \o filter_merge(r.uf, sorted, i + 1)
            ELSE filter_merge(r.uf, sorted, i + 1)

krusal_keeps_all(es, k) == sort_unstable_by_key(es)

exact_mst_krusal(es, k) ==
    { filter_merge(UnionFind_new(k), sorted, 1) : sorted \in sort_unstable_by_key(es) }

(***************************************************************************)
(* Specification SpecUM: single_linkage on an edge list of length n-1 over *)
(* the ids [0,n), then dist queries on the Ultrametric it built.           *)
(***************************************************************************)
UmN == Len(cut_weights) + 1

InitUM ==
    /\ pc = "input"
    /\ \E k \in 2..MaxN : cut_weights \in ListsOver(EdgeSet(k, MaxW), k - 1)
    /\ id_to_pos = Null /\ rmq = Null
    /\ n = Null /\ edges = Null /\ res = Null
    /\ points = Null /\ gamma = Null /\ radius = Null /\ max_dist = Null
    /\ lsh = Null /\ pass_edges = Null
    /\ projections = Null /\ m = Null /\ buckets = Null /\ merged = Null /\ far = Null

SingleLinkage ==
    /\ pc = "input"
    /\ \E r \in single_linkage(cut_weights) :
         IF r.ok
         THEN pc' = "built" /\ id_to_pos' = r.id_to_pos /\ rmq' = r.rmq
         ELSE pc' = "panic" /\ UNCHANGED <<id_to_pos, rmq>>
    /\ UNCHANGED <<cut_weights, mstVars, ktVars, afnVars>>

NextUM == SingleLinkage

SpecUM == InitUM /\ [][NextUM]_vars

\* The smallest weight w at which i and j are in one cluster when the edges
\* of E are merged in ascending weight order; on a tree, the largest weight
\* on the path between i and j.
LinkageWeight(i, j, E) ==
    SetMin({ w \in Weights(E) : Connected(i, j, { e \in E : e[3] <= w }) })

\* Some edge of the list joins two ids that the other edges of the list
\* already connect (a duplicate or a cycle-closing edge).
ClosesCycle(s) ==
    \E i \in 1..Len(s) :
        Connected(s[i][1], s[i][2], { s[j] : j \in (1..Len(s)) \ {i} })

\* C1: on a spanning tree over [0,n), n >= 2, single_linkage completes and
\* for all i # j the range between the two positions is non-empty and inside
\* the gap array, and dist(i,j) is the largest gap weight of that range, which
\* is the weight at which i and j are first in one cluster.
C1_DistIsLinkageWeight ==
    (pc # "input" /\ IsSpanningTree(cut_weights, UmN)) =>
        /\ pc = "built"
        /\ \A i \in Ids(UmN), j \in Ids(UmN) :
             i # j =>
               LET lo == IF id_to_pos[i] < id_to_pos[j] THEN id_to_pos[i] ELSE id_to_pos[j]
                   hi == IF id_to_pos[i] < id_to_pos[j] THEN id_to_pos[j] ELSE id_to_pos[i]
               IN /\ lo < hi /\ hi <= Len(rmq)
                  /\ Ultrametric_dist(i, j) = SetMax({ rmq[p + 1] : p \in lo..(hi - 1) })
                  /\ Ultrametric_dist(i, j) = LinkageWeight(i, j, Range(cut_weights))

C1_Witness ==
    /\ pc = "built" /\ UmN = 4
    /\ \E i \in Ids(UmN), j \in Ids(UmN), k \in Ids(UmN) :
         /\ id_to_pos[j] >= id_to_pos[i] + 2
         /\ Ultrametric_dist(i, j) = 2
         /\ Ultrametric_dist(i, k) = 1

\* C2: on every Ultrametric built by single_linkage, every dist is defined
\* and dist(i,j) <= max(dist(i,k), dist(j,k)) for all i, j, k, repeated ids
\* included.
C2_StrongTriangle ==
    pc = "built" =>
        \A i \in Ids(UmN), j \in Ids(UmN), k \in Ids(UmN) :
            /\ Ultrametric_dist(i, j) # Panic
            /\ Ultrametric_dist(i, j) <= Max(Ultrametric_dist(i, k), Ultrametric_dist(j, k))

C2_Witness ==
    /\ pc = "built"
    /\ \E i \in Ids(UmN), j \in Ids(UmN), k \in Ids(UmN) :
         /\ Ultrametric_dist(i, j) = 1
         /\ Ultrametric_dist(i, k) = 2
         /\ Ultrametric_dist(j, k) = 2
         /\ id_to_pos[k] < id_to_pos[i]

\* C3: dist(i,j) = dist(j,i) for all i, j, and dist(i,i) is 0, returned
\* without a query of the range-maximum structure.
C3_SymmetryIdentity ==
    pc = "built" =>
        \A i \in Ids(UmN), j \in Ids(UmN) :
            /\ Ultrametric_dist(i, j) # Panic
            /\ Ultrametric_dist(i, j) = Ultrametric_dist(j, i)
            /\ Ultrametric_dist_call(i, i) = [ret |-> 0, rmq_queries |-> 0]

C3_Witness ==
    /\ pc = "built"
    /\ \E i \in Ids(UmN), j \in Ids(UmN) :
         /\ id_to_pos[i] > id_to_pos[j]
         /\ Ultrametric_dist(i, j) = 2
         /\ Ultrametric_dist_call(i, j).rmq_queries = 1

KtSizes == {1, 2}

KtGammas == {1, 2}

InitMst ==
    /\ \/ /\ pc = "candidates"
          /\ n \in 1..MstMaxN
          /\ \E len \in 0..(n + 1) : edges \in ListsOver(EdgeSet(n, MstMaxW), len)
          /\ points = <<>> /\ gamma = Null
       \/ /\ pc = "start"
          /\ n = Null /\ edges = Null
          /\ \E k \in KtSizes : points \in [Ids(k) -> { <<x>> : x \in 0..KtMaxCoord }]
          /\ gamma \in KtGammas
    /\ res = Null /\ radius = Null /\ max_dist = Null
    /\ lsh = Null /\ pass_edges = Null
    /\ cut_weights = Null /\ id_to_pos = Null /\ rmq = Null
    /\ projections = Null /\ m = Null /\ buckets = Null /\ merged = Null /\ far = Null

\* compute_mst: n = points.nrows(); max_dist = estimate_diameter(points);
\* gamma_kt: edges = vec![]; radius = min_dist.
ComputeMstStart ==
    /\ pc = "start"
    /\ n' = nrows(points)
    /\ max_dist' = estimate_diameter(points)
    /\ edges' = <<>>
    /\ radius' = <<MinDist, 1>>
    /\ pc' = "ladder"
    /\ UNCHANGED <<res, points, gamma, lsh, pass_edges, umVars, afnVars>>

\* gamma_kt: one turn of while radius <= step * max_dist.
GammaKtRung ==
    /\ pc = "ladder"
    /\ ladder_continues(radius, n, max_dist)
    /\ edges' \in iter_local_bfs(points, radius, gamma, edges, nb_iter(gamma, n))
    /\ radius' = next_radius(radius, n)
    /\ UNCHANGED <<pc, n, res, points, gamma, max_dist, lsh, pass_edges, umVars, afnVars>>

\* gamma_kt returns its edges.
GammaKtReturn ==
    /\ pc = "ladder"
    /\ ~ladder_continues(radius, n, max_dist)
    /\ pc' = "candidates"
    /\ UNCHANGED <<mstVars, ktVars, umVars, afnVars>>

ExactMstKrusal ==
    /\ pc = "candidates"
    /\ res' \in exact_mst_krusal(edges, n)
    /\ pc' = "mst"
    /\ UNCHANGED <<n, edges, ktVars, umVars, afnVars>>

\* assert_eq!(res.edges.len(), n - 1)
AssertEdgeCount ==
    /\ pc = "mst"
    /\ pc' = IF Len(res) = n - 1 THEN "ok" ELSE "panic"
    /\ UNCHANGED <<mstVars, ktVars, umVars, afnVars>>

NextMst ==
    \/ ComputeMstStart
    \/ GammaKtRung
    \/ GammaKtReturn
    \/ ExactMstKrusal
    \/ AssertEdgeCount

SpecMst == InitMst /\ [][NextMst]_vars

RECURSIVE TotalWeight(_)
TotalWeight(s) == IF s = <<>> THEN 0 ELSE Head(s)[3] + TotalWeight(Tail(s))

\* The spanning trees of the list s over k vertices, as sets of positions.
SpanningTrees(s, k) ==
    { T \in SUBSET (1..Len(s)) :
        /\ Cardinality(T) = k - 1
        /\ ReachFrom({0}, { s[i] : i \in T }) = Ids(k) }

MinSpanningWeight(s, k) ==
    SetMin({ TotalWeight([i \in 1..(k - 1) |-> s[SeqOfSet(T)[i]]]) : T \in SpanningTrees(s, k) })

\* t takes its elements from distinct positions of s.
IsSubList(t, s) ==
    \E f \in [1..Len(t) -> 1..Len(s)] :
        /\ \A i \in 1..Len(t) : t[i] = s[f[i]]
        /\ \A i \in 1..Len(t), j \in 1..Len(t) : i # j => f[i] # f[j]

\* No PointSet: the candidate list was given.
GivenList == points = <<>>

\* C4: on an edge list over n vertices whose graph is connected,
\* exact_mst_krusal returns n-1 of the list's edges, acyclic and spanning,
\* in ascending weight order, of the minimum total weight over the spanning
\* trees of the list.
C4_KruskalIsMinimum ==
    (GivenList /\ pc \in {"mst", "ok", "panic"}
       /\ ReachFrom({0}, Range(edges)) = Ids(n)) =>
        /\ Len(res) = n - 1
        /\ IsSubList(res, edges)
        /\ ReachFrom({0}, Range(res)) = Ids(n)
        /\ ~ClosesCycle(res)
        /\ IsSortedByWeight(res)
        /\ TotalWeight(res) = MinSpanningWeight(edges, n)

C4_Witness ==
    /\ GivenList /\ pc = "mst" /\ n = 3 /\ Len(edges) = 4
    /\ \E i \in 1..4, j \in 1..4 : i # j /\ edges[i] = edges[j]
    /\ Len(res) = 2 /\ res[1][3] = 1 /\ res[2][3] = 2
    /\ \E i \in 1..4 : edges[i] \notin Range(res)

AllIdentical == \A i \in DOMAIN points : points[i] = points[0]

\* C5: exact_mst_krusal accepts n - c edges, c the number of components of
\* the candidate graph; compute_mst's assertion fails iff the candidate
\* graph is disconnected, so that compute_mst never returns fewer than n-1
\* edges; with n >= 2 identical points the ladder has no rung, no edge is
\* emitted and the assertion fails.
C5_AssertFailsIffDisconnected ==
    /\ pc \in {"mst", "ok", "panic"} =>
         Len(res) = n - CountComponents(Ids(n), Range(edges))
    /\ pc \in {"ok", "panic"} =>
         (pc = "panic" <=> CountComponents(Ids(n), Range(edges)) # 1)
    /\ pc = "ok" => Len(res) = n - 1
    /\ (~GivenList /\ pc \in {"candidates", "mst", "ok", "panic"} /\ n >= 2 /\ AllIdentical) =>
         (edges = <<>> /\ pc # "ok")

C5_Witness ==
    /\ ~GivenList /\ pc = "panic" /\ n = 2 /\ AllIdentical /\ edges = <<>> /\ res = <<>>

C5_WitnessDisconnected ==
    /\ ~GivenList /\ pc = "panic" /\ n = 2 /\ ~AllIdentical

(***************************************************************************)
(* Specification SpecDiam: afn::estimate_diameter on points of the plane.  *)
(***************************************************************************)
InitDiam ==
    /\ pc = "start"
    /\ \E k \in 1..DiamMaxN :
         points \in [Ids(k) -> (0..DiamMaxCoord) \X (0..DiamMaxCoord)]
    /\ max_dist = Null
    /\ n = Null /\ edges = Null /\ res = Null /\ gamma = Null /\ radius = Null
    /\ lsh = Null /\ pass_edges = Null
    /\ cut_weights = Null /\ id_to_pos = Null /\ rmq = Null
    /\ projections = Null /\ m = Null /\ buckets = Null /\ merged = Null /\ far = Null

EstimateDiameter ==
    /\ pc = "start"
    /\ max_dist' = estimate_diameter(points)
    /\ pc' = "done"
    /\ UNCHANGED <<points, gamma, radius, lsh, pass_edges, mstVars, umVars, afnVars>>

NextDiam == EstimateDiameter

SpecDiam == InitDiam /\ [][NextDiam]_vars

\* The largest pairwise distance (by its radicand).
TrueDiameter == SetMax({ dist(points[i], points[j]) : i \in DOMAIN points, j \in DOMAIN points })

\* C6: true_diameter <= estimate_diameter(points) <= 2 * true_diameter.
C6_DiameterBound ==
    pc = "done" =>
        /\ TrueDiameter <= max_dist
        /\ max_dist <= Twice(TrueDiameter)

\* The estimate is strictly between the two bounds: the farthest point from
\* p1 is not at the diameter.
C6_Witness ==
    /\ pc = "done" /\ nrows(points) = 4
    /\ TrueDiameter < max_dist
    /\ max_dist < Twice(TrueDiameter)

(***************************************************************************)
(* Specification SpecBfs: one pass of kt::local_bfs over the buckets of    *)
(* projection_lsh, for points on a line.                                   *)
(***************************************************************************)
InitBfs ==
    /\ pc = "start"
    /\ \E k \in 1..BfsMaxN : points \in [Ids(k) -> { <<x>> : x \in 0..BfsMaxCoord }]
    /\ gamma \in KtGammas
    /\ radius \in { <<r, 1>> : r \in 1..BfsMaxRadius }
    /\ edges = <<>>
    /\ lsh = <<>> /\ pass_edges = <<>>
    /\ n = Null /\ res = Null /\ max_dist = Null
    /\ cut_weights = Null /\ id_to_pos = Null /\ rmq = Null
    /\ projections = Null /\ m = Null /\ buckets = Null /\ merged = Null /\ far = Null

LocalBfs ==
    /\ pc = "start"
    /\ \E bs \in projection_lsh(points, radius, gamma) :
         /\ lsh' = bs
         /\ pass_edges' = local_bfs(points, radius, gamma, <<>>, bs, 1)
         /\ edges' = local_bfs(points, radius, gamma, edges, bs, 1)
    /\ pc' = "done"
    /\ UNCHANGED <<n, res, points, gamma, radius, max_dist, umVars, afnVars>>

NextBfs == LocalBfs

SpecBfs == InitBfs /\ [][NextBfs]_vars

\* The pairs of bucket b within gamma * radius of each other, as edges.
NearPairs(b) ==
    { <<u, v, dist(points[u], points[v])>> : u \in Range(b), v \in Range(b) } \cap
    { e \in (Range(b) \X Range(b) \X (0..(BfsMaxCoord + 1) * (BfsMaxCoord + 1))) :
        e[1] # e[2] /\ WithinRadius(e[3], gamma, radius) }

\* C10: after one pass, two points of a bucket that a chain of bucket points
\* with consecutive distances <= gamma * radius links are connected by the
\* edges recorded in the pass; every recorded edge has distinct endpoints of
\* one bucket and the weight dist(u,v) <= gamma * radius.
C10_BucketChainsConnected ==
    pc = "done" =>
        /\ \A i \in DOMAIN lsh : \A u \in Range(lsh[i]), v \in Range(lsh[i]) :
             Connected(u, v, NearPairs(lsh[i])) => Connected(u, v, Range(pass_edges))
        /\ \A j \in DOMAIN pass_edges :
             /\ pass_edges[j][1] # pass_edges[j][2]
             /\ \E i \in DOMAIN lsh : {pass_edges[j][1], pass_edges[j][2]} \subseteq Range(lsh[i])
             /\ pass_edges[j][3] = dist(points[pass_edges[j][1]], points[pass_edges[j][2]])
             /\ WithinRadius(pass_edges[j][3], gamma, radius)

\* The part of C10 that holds: the recorded edges.
RecordedEdgesSound ==
    pc = "done" =>
        \A j \in DOMAIN pass_edges :
             /\ pass_edges[j][1] # pass_edges[j][2]
             /\ \E i \in DOMAIN lsh : {pass_edges[j][1], pass_edges[j][2]} \subseteq Range(lsh[i])
             /\ pass_edges[j][3] = dist(points[pass_edges[j][1]], points[pass_edges[j][2]])
             /\ WithinRadius(pass_edges[j][3], gamma, radius)

(***************************************************************************)
(* afn: AfnCluster.  An entry (Reverse(OrderedFloat(value)), id) of a      *)
(* bucket is the tuple <<value, id>>; the derived order of the entry type  *)
(* puts the larger value first and, among equal values, the smaller id.    *)
(***************************************************************************)
EntryLeq(e, f) == e[1] > f[1] \/ (e[1] = f[1] /\ e[2] <= f[2])

Take(s, k) == SubSeq(s, 1, IF Len(s) < k THEN Len(s) ELSE k)

RECURSIVE itertools_merge(_, _)
\* Itertools::merge of two ascending iterators.
itertools_merge(a, b) ==
    IF a = <<>> THEN b
    ELSE IF b = <<>> THEN a
    ELSE IF EntryLeq(Head(a), Head(b))
         THEN <<Head(a)>> \o itertools_merge(Tail(a), b)
         ELSE <<Head(b)>> \o itertools_merge(a, Tail(b))

\* AfnCluster::new: one entry per axis.
AfnCluster_new(proj, id) == [a \in DOMAIN proj |-> << <<proj[a], id>> >>]

\* AfnCluster::merge: the buckets of self afterwards.  The zip ends with the
\* shorter of self.buckets and rhs.buckets; the axes of self beyond it are
\* left as they are.  rhs.buckets is drained.
AfnCluster_merge(self, rhs, cap) ==
    [a \in DOMAIN self |->
        IF a <= Len(rhs) THEN Take(itertools_merge(self[a], rhs[a]), cap) ELSE self[a]]

RECURSIVE SortEntries(_)
\* sorted_unstable of distinct entries.
SortEntries(S) ==
    IF S = {} THEN <<>>
    ELSE LET e == CHOOSE x \in S : \A y \in S : EntryLeq(x, y)
         IN <<e>> \o SortEntries(S \ {e})

\* AfnCluster::new_full restricted to the point ids S: per axis, the first m
\* entries in sorted order.
new_full(S, a, cap) == Take(SortEntries({ <<projections[id][a], id>> : id \in S }), cap)

\* The key of a heap entry: value.0 - v, for the cursor at position pos of
\* axis a and the query id.
HeapValue(b, a, pos, id) == b[a][pos][1] - projections[id][a]

RECURSIVE heap_loop(_, _, _, _, _)
\* while let Some(entry) = heap.pop() { ... }: the outcomes, over the order
\* in which the heap pops entries of equal value.  heap is the set of
\* cursors <<axis, position>>, best the farthest so far (<<>> for None),
\* it the number of pops done.
heap_loop(b, id, heap, best, it) ==
    IF heap = {} THEN { [farthest |-> best, pops |-> it] }
    ELSE LET top == SetMax({ HeapValue(b, c[1], c[2], id) : c \in heap })
         IN UNION {
              LET cand == b[c[1]][c[2]][2]
                  d    == dist(points[id], points[cand])
                  nb   == IF best = <<>> \/ d > best[2] THEN <<cand, d>> ELSE best
                  nh   == (heap \ {c}) \cup
                          (IF c[2] < Len(b[c[1]]) THEN { <<c[1], c[2] + 1>> } ELSE {})
              IN IF it + 1 > m THEN { [farthest |-> nb, pops |-> it + 1] }
                 ELSE heap_loop(b, id, nh, nb, it + 1)
              : c \in { x \in heap : HeapValue(b, x[1], x[2], id) = top } }

\* AfnCluster::get_farthest: self.buckets[i] panics for an axis the cluster
\* has no list for; expect() panics when nothing was popped.
get_farthest(b, id) ==
    IF Len(b) < Len(projections[id]) THEN { [farthest |-> <<>>, pops |-> 0, panic |-> TRUE] }
    ELSE { [farthest |-> o.farthest, pops |-> o.pops, panic |-> o.farthest = <<>>] :
           o \in heap_loop(b, id, { <<a, 1>> : a \in { x \in DOMAIN b : b[x] # <<>> } }, <<>>, 0) }

(***************************************************************************)
(* Specification SpecAfn: ApproxFarthestNeighbor::new and create_clusters  *)
(* (the initial states), then any merges among the clusters and a          *)
(* get_farthest query.  The projection matrix is random: its entries are   *)
(* drawn from AfnProj.  m is drawn from 1..AfnMaxM (new sets it to         *)
(* 20 * (ilog2(n) + 1); new_full and AfnCluster::new take any m).          *)
(***************************************************************************)
AfnProj == {0 - 1, 1}

InitAfn ==
    /\ pc = "clusters"
    /\ \E k \in 1..AfnMaxN, l \in 1..AfnMaxL :
         /\ points \in [Ids(k) -> { <<x>> : x \in 0..AfnMaxCoord }]
         /\ \E proj \in [1..l -> AfnProj] :
              projections = [id \in Ids(k) |-> [a \in 1..l |-> points[id][1] * proj[a]]]
         /\ buckets = [id \in Ids(k) |-> AfnCluster_new(projections[id], id)]
         /\ merged = [id \in Ids(k) |-> {id}]
    /\ m \in 1..AfnMaxM
    /\ far = <<>>
    /\ n = Null /\ edges = Null /\ res = Null /\ gamma = Null /\ radius = Null
    /\ max_dist = Null /\ lsh = Null /\ pass_edges = Null
    /\ cut_weights = Null /\ id_to_pos = Null /\ rmq = Null

\* self.merge(&mut rhs) for two different clusters.
Merge(self, rhs) ==
    /\ pc = "clusters"
    /\ self # rhs
    /\ buckets' = [buckets EXCEPT ![self] = AfnCluster_merge(buckets[self], buckets[rhs], m),
                                  ![rhs] = <<>>]
    /\ merged' = [merged EXCEPT ![self] = merged[self] \cup merged[rhs], ![rhs] = {}]
    /\ UNCHANGED <<pc, points, projections, m, far, gamma, radius, max_dist, lsh, pass_edges,
                   mstVars, umVars>>

GetFarthest(c, id) ==
    /\ pc = "clusters"
    /\ \E o \in get_farthest(buckets[c], id) : far' = [cluster |-> c, id |-> id, out |-> o]
    /\ pc' = "queried"
    /\ UNCHANGED <<points, projections, m, buckets, merged, gamma, radius, max_dist, lsh,
                   pass_edges, mstVars, umVars>>

NextAfn ==
    \/ \E self \in DOMAIN buckets, rhs \in DOMAIN buckets : Merge(self, rhs)
    \/ \E c \in DOMAIN buckets, id \in DOMAIN points : GetFarthest(c, id)

SpecAfn == InitAfn /\ [][NextAfn]_vars

NbAxes == Len(projections[0])

\* The list cluster c holds for axis a: none is an empty list.
AxisList(c, a) == IF a <= Len(buckets[c]) THEN buckets[c][a] ELSE <<>>

\* C7: after any merges among the clusters of create_clusters, for every
\* cluster and axis the list has at most m entries, of distinct ids, in
\* descending order of projected value, and is the top m of the points
\* merged into the cluster (none for the rhs of a merge).
C7_SummaryIsTopM ==
    \A c \in DOMAIN buckets, a \in 1..NbAxes :
        LET s == AxisList(c, a)
        IN /\ Len(s) <= m
           /\ \A i \in 1..Len(s), j \in 1..Len(s) : i # j => s[i][2] # s[j][2]
           /\ \A i \in 1..(Len(s) - 1) : s[i][1] >= s[i + 1][1]
           /\ s = new_full(merged[c], a, m)

\* C8: one call of get_farthest pops at most m heap entries.
C8_AtMostMPops ==
    pc = "queried" => far.out.pops <= m

====
